---- MODULE Spec2Model ----
(***************************************************************************)
(* Net-cafe automation: the persistence layer (database.py) and the        *)
(* handlers of the desktop UI (main.py) as one state machine.              *)
(*                                                                         *)
(* Money is kept in hundredths of a TL (kurus), so that round(x, 2) is an  *)
(* integer rounding.  Wall-clock time is kept in ticks of 100 seconds, so  *)
(* that int(round(seconds / 60.0)) rounds both down and up.                *)
(* A nullable column holds the empty set for NULL and {v} for the value v. *)
(***************************************************************************)
EXTENDS Integers, Sequences, FiniteSets, TLC

VARIABLES
    tables,             \* tables:   id -> [kind, status, is_out_of_order]
    sessions,           \* sessions: rows in id order (id = index)
    products,           \* products: id -> [category, price, stock]
    orders,             \* orders:   rows in id order (id = index)
    now,                \* the wall clock, in ticks of 100 seconds
    selected_table_id,  \* CafeApp.selected_table_id (NULL or {id})
    start_popups,       \* open SessionStartWindow popups, per table_id
    order_popups,       \* open OrderWindow popups, per table_id
    ret,                \* the value the last database call returned
    dialog,             \* the messagebox the last step showed
    bills               \* what end_session returned, per closed session

vars == <<tables, sessions, products, orders, now, selected_table_id,
          start_popups, order_popups, ret, dialog, bills>>

db_vars == <<tables, sessions, products, orders>>
ui_vars == <<selected_table_id, start_popups, order_popups>>

(***************************************************************************)
(* Bounds of the model.                                                    *)
(***************************************************************************)
MaxSessions == 2    \* rows of sessions
MaxOrders == 2      \* rows of orders
MaxTime == 1        \* clock readings 0 .. MaxTime
MaxPopups == 2      \* popups open at a time

(***************************************************************************)
(* Constants of database.py.                                               *)
(***************************************************************************)
TABLE_KIND_VIP == "VIP"
TABLE_KIND_STANDARD == "Standard"
STATUS_EMPTY == "Empty"
STATUS_OCCUPIED == "Occupied"
STATUS_RESERVED == "Reserved"
STATUS_OUT_OF_ORDER == "OutOfOrder"
CATEGORY_FOOD == "Food"
CATEGORY_DRINK == "Drink"

NULL == {}
Some(v) == {v}
Val(n) == CHOOSE v \in n : TRUE

\* init_db seeds tables 1..NumTables: the first LastVipTable are VIP.
NumTables == 20
LastVipTable == 5
VipRate == 30
StandardRate == 20

\* The rows of init_db's product list, in insertion order (prices in kurus).
SeedProducts ==
    << [name |-> "Cheese Toast",   category |-> CATEGORY_FOOD,  price |-> 5000,  stock |-> 50],
       [name |-> "Sausage Toast",  category |-> CATEGORY_FOOD,  price |-> 6000,  stock |-> 50],
       [name |-> "Mixed Toast",    category |-> CATEGORY_FOOD,  price |-> 7000,  stock |-> 50],
       [name |-> "Patso Sandwich", category |-> CATEGORY_FOOD,  price |-> 4500,  stock |-> 40],
       [name |-> "Pizza",          category |-> CATEGORY_FOOD,  price |-> 12000, stock |-> 30],
       [name |-> "Water",          category |-> CATEGORY_DRINK, price |-> 1000,  stock |-> 100],
       [name |-> "Tea",            category |-> CATEGORY_DRINK, price |-> 1500,  stock |-> 100],
       [name |-> "Cola",           category |-> CATEGORY_DRINK, price |-> 2500,  stock |-> 80],
       [name |-> "Fanta",          category |-> CATEGORY_DRINK, price |-> 2500,  stock |-> 80],
       [name |-> "Sprite",         category |-> CATEGORY_DRINK, price |-> 2500,  stock |-> 80] >>

(***************************************************************************)
(* The rows of the seeded database the model's calls are made for: one VIP *)
(* and one Standard table, one Food and one Drink product.  The id 0 is an *)
(* id no row has (sqlite3 does not enforce the FOREIGN KEY clauses by      *)
(* default).                                                               *)
(***************************************************************************)
TableIds == {5, 6}
ProductIds == {5, 6}
TableArgs == TableIds \cup {0}
ProductArgs == ProductIds \cup {0}
QuantityArgs == {-1, 0, 30, 31}
MinutesArgs == {-1, 0, 1}
\* The values of the duration menu, and the ones the model's user picks.
UiDurations == {30, 60, 120, 180}
DurationChoices == {30}
\* The product buttons the model's user presses.
ProductChoices == {5}

SeedTable(i) ==
    [kind |-> IF i <= LastVipTable THEN TABLE_KIND_VIP ELSE TABLE_KIND_STANDARD,
     status |-> STATUS_EMPTY,
     is_out_of_order |-> 0]

SeedProduct(i) ==
    [category |-> SeedProducts[i].category,
     price |-> SeedProducts[i].price,
     stock |-> SeedProducts[i].stock]


(***************************************************************************)
(* Arithmetic of the time charge.                                          *)
(***************************************************************************)
\* Python's round(): n/d to the nearest integer, ties to the even one (d > 0).
RoundHalfEven(n, d) ==
    LET q == n \div d
        r == n % d
    IN  IF 2 * r < d THEN q
        ELSE IF 2 * r > d THEN q + 1
        ELSE IF q % 2 = 0 THEN q ELSE q + 1

\* round(hourly * (minutes / 60.0), 2), in kurus.
RoundCharge(hourly, minutes) == RoundHalfEven(hourly * minutes * 100, 60)

\* int(round((end - start).total_seconds() / 60.0)), the clock in 100 s ticks.
ElapsedMinutes(start, end) == RoundHalfEven(100 * (end - start), 60)

(***************************************************************************)
(* The value the last database call returned: None, a bool, or the tuple   *)
(* (charge, minutes).                                                      *)
(***************************************************************************)
NoRet == [type |-> "None", ok |-> FALSE, charge |-> 0, minutes |-> 0]
RetBool(b) == [type |-> "bool", ok |-> b, charge |-> 0, minutes |-> 0]
RetTuple(charge, minutes) ==
    [type |-> "tuple", ok |-> FALSE, charge |-> charge, minutes |-> minutes]

NoDialog == [kind |-> "none", text |-> "none", total |-> 0]
Dialog(kind, text) == [kind |-> kind, text |-> text, total |-> 0]

(***************************************************************************)
(* database.py                                                             *)
(***************************************************************************)
fetch_table(table_id) ==
    IF table_id \in DOMAIN tables THEN Some(tables[table_id]) ELSE NULL

get_hourly_rate(table_id) ==
    IF fetch_table(table_id) = NULL THEN 0
    ELSE IF tables[table_id].kind = TABLE_KIND_VIP THEN VipRate ELSE StandardRate

\* SELECT * FROM sessions WHERE table_id=? AND end_ts IS NULL; fetchone():
\* the id of the first such row, or NULL.
fetch_active_session(table_id) ==
    LET open == {i \in DOMAIN sessions :
                    sessions[i].table_id = table_id /\ sessions[i].end_ts = NULL}
    IN  IF open = {} THEN NULL
        ELSE Some(CHOOSE i \in open : \A j \in open : i <= j)

\* UPDATE tables SET status=? WHERE id=?
SetStatus(table_id, status) ==
    [i \in DOMAIN tables |->
        IF i = table_id THEN [tables[i] EXCEPT !.status = status] ELSE tables[i]]

\* start_timed_session without its check for an active session.
start_timed_session_unguarded(table_id, minutes) ==
    /\ ret' = NoRet
    /\ sessions' = Append(sessions,
           [table_id |-> table_id,
            start_ts |-> now,
            end_ts |-> NULL,
            kind |-> "Timed",
            planned_minutes |-> Some(minutes),
            hourly_rate |-> get_hourly_rate(table_id)])
    /\ tables' = SetStatus(table_id, STATUS_OCCUPIED)
    /\ UNCHANGED <<products, orders, bills>>

start_timed_session(table_id, minutes) ==
    /\ ret' = NoRet
    /\ IF fetch_active_session(table_id) # NULL
       THEN UNCHANGED <<tables, sessions>>
       ELSE /\ sessions' = Append(sessions,
                   [table_id |-> table_id,
                    start_ts |-> now,
                    end_ts |-> NULL,
                    kind |-> "Timed",
                    planned_minutes |-> Some(minutes),
                    hourly_rate |-> get_hourly_rate(table_id)])
            /\ tables' = SetStatus(table_id, STATUS_OCCUPIED)
    /\ UNCHANGED <<products, orders, bills>>

\* start_unlimited_session with the UPDATE of tables made also when the
\* table has an active session.
start_unlimited_session_restamping(table_id) ==
    /\ ret' = NoRet
    /\ IF fetch_active_session(table_id) # NULL
       THEN UNCHANGED sessions
       ELSE sessions' = Append(sessions,
                   [table_id |-> table_id,
                    start_ts |-> now,
                    end_ts |-> NULL,
                    kind |-> "Unlimited",
                    planned_minutes |-> NULL,
                    hourly_rate |-> get_hourly_rate(table_id)])
    /\ tables' = SetStatus(table_id, STATUS_OCCUPIED)
    /\ UNCHANGED <<products, orders, bills>>

start_unlimited_session(table_id) ==
    /\ ret' = NoRet
    /\ IF fetch_active_session(table_id) # NULL
       THEN UNCHANGED <<tables, sessions>>
       ELSE /\ sessions' = Append(sessions,
                   [table_id |-> table_id,
                    start_ts |-> now,
                    end_ts |-> NULL,
                    kind |-> "Unlimited",
                    planned_minutes |-> NULL,
                    hourly_rate |-> get_hourly_rate(table_id)])
            /\ tables' = SetStatus(table_id, STATUS_OCCUPIED)
    /\ UNCHANGED <<products, orders, bills>>

\* add_order variants: the stock check left out (unchecked), the check
\* written stock <= quantity (strict), the stock decrement left out
\* (no_decrement), the amount taken as the bare price (unit_amount).
AddOrderVariant(table_id, product_id, quantity, refuse(_, _), dec, amount) ==
    LET session == fetch_active_session(table_id)
    IN  /\ UNCHANGED <<tables, sessions, bills>>
        /\ IF \/ session = NULL
              \/ product_id \notin DOMAIN products
              \/ refuse(products[product_id].stock, quantity)
           THEN ret' = RetBool(FALSE) /\ UNCHANGED <<products, orders>>
           ELSE /\ orders' = Append(orders,
                       [session_id |-> Val(session),
                        product_id |-> product_id,
                        quantity |-> quantity,
                        amount |-> amount])
                /\ products' = [products EXCEPT ![product_id].stock = @ - dec]
                /\ ret' = RetBool(TRUE)

add_order_unchecked(table_id, product_id, quantity) ==
    LET refuse(stock, q) == FALSE
    IN  AddOrderVariant(table_id, product_id, quantity, refuse, quantity,
                        products[product_id].price * quantity)

add_order_strict(table_id, product_id, quantity) ==
    LET refuse(stock, q) == stock <= q
    IN  AddOrderVariant(table_id, product_id, quantity, refuse, quantity,
                        products[product_id].price * quantity)

add_order_no_decrement(table_id, product_id, quantity) ==
    LET refuse(stock, q) == stock < q
    IN  AddOrderVariant(table_id, product_id, quantity, refuse, 0,
                        products[product_id].price * quantity)

add_order_unit_amount(table_id, product_id, quantity) ==
    LET refuse(stock, q) == stock < q
    IN  AddOrderVariant(table_id, product_id, quantity, refuse, quantity,
                        products[product_id].price)

\* add_order with the session looked up without the end_ts IS NULL test: the
\* order goes to the latest session of the table.
add_order_any_session(table_id, product_id, quantity) ==
    LET rows == {i \in DOMAIN sessions : sessions[i].table_id = table_id}
    IN  /\ UNCHANGED <<tables, sessions, bills>>
        /\ IF \/ rows = {}
              \/ product_id \notin DOMAIN products
              \/ products[product_id].stock < quantity
           THEN ret' = RetBool(FALSE) /\ UNCHANGED <<products, orders>>
           ELSE /\ orders' = Append(orders,
                       [session_id |-> CHOOSE i \in rows : \A k \in rows : k <= i,
                        product_id |-> product_id,
                        quantity |-> quantity,
                        amount |-> products[product_id].price * quantity])
                /\ products' = [products EXCEPT
                                   ![product_id].stock = @ - quantity]
                /\ ret' = RetBool(TRUE)

add_order(table_id, product_id, quantity) ==
    LET session == fetch_active_session(table_id)
        failed == RetBool(FALSE)
    IN  /\ UNCHANGED <<tables, sessions, bills>>
        /\ IF session = NULL
           THEN ret' = failed /\ UNCHANGED <<products, orders>>
           ELSE IF product_id \notin DOMAIN products
           THEN ret' = failed /\ UNCHANGED <<products, orders>>
           ELSE IF products[product_id].stock < quantity
           THEN ret' = failed /\ UNCHANGED <<products, orders>>
           ELSE /\ orders' = Append(orders,
                       [session_id |-> Val(session),
                        product_id |-> product_id,
                        quantity |-> quantity,
                        amount |-> products[product_id].price * quantity])
                /\ products' = [products EXCEPT
                                   ![product_id].stock = @ - quantity]
                /\ ret' = RetBool(TRUE)

\* (charge, minutes) of a session row, at the clock reading `now`.
_calculate_time_charge(session) ==
    LET hourly == session.hourly_rate
    IN  IF /\ session.kind = "Timed"
           /\ session.planned_minutes # NULL
           /\ Val(session.planned_minutes) # 0
        THEN LET minutes == Val(session.planned_minutes)
             IN  <<RoundCharge(hourly, minutes), minutes>>
        ELSE LET elapsed == ElapsedMinutes(session.start_ts, now)
                 minutes == IF elapsed < 1 THEN 1 ELSE elapsed
             IN  <<RoundCharge(hourly, minutes), minutes>>

\* end_session with the UPDATE of sessions left out.
end_session_no_end_ts(table_id) ==
    LET session == fetch_active_session(table_id)
    IN  /\ UNCHANGED <<products, orders, sessions>>
        /\ IF session = NULL
           THEN ret' = RetTuple(0, 0) /\ UNCHANGED <<tables, bills>>
           ELSE LET id == Val(session)
                    cm == _calculate_time_charge(sessions[id])
                IN  /\ tables' = SetStatus(table_id,
                          IF table_id \in DOMAIN tables
                             /\ tables[table_id].is_out_of_order = 1
                          THEN STATUS_OUT_OF_ORDER ELSE STATUS_EMPTY)
                    /\ bills' = Append(bills,
                          [session |-> id, charge |-> cm[1], minutes |-> cm[2]])
                    /\ ret' = RetTuple(cm[1], cm[2])

\* end_session with the status set to Empty whatever is_out_of_order holds.
end_session_always_empty(table_id) ==
    LET session == fetch_active_session(table_id)
    IN  /\ UNCHANGED <<products, orders>>
        /\ IF session = NULL
           THEN ret' = RetTuple(0, 0) /\ UNCHANGED <<tables, sessions, bills>>
           ELSE LET id == Val(session)
                    cm == _calculate_time_charge(sessions[id])
                IN  /\ sessions' = [sessions EXCEPT ![id].end_ts = Some(now)]
                    /\ tables' = SetStatus(table_id, STATUS_EMPTY)
                    /\ bills' = Append(bills,
                          [session |-> id, charge |-> cm[1], minutes |-> cm[2]])
                    /\ ret' = RetTuple(cm[1], cm[2])

\* end_session with the session looked up without the end_ts IS NULL test.
end_session_any_row(table_id) ==
    LET rows == {i \in DOMAIN sessions : sessions[i].table_id = table_id}
    IN  /\ UNCHANGED <<products, orders>>
        /\ IF rows = {}
           THEN ret' = RetTuple(0, 0) /\ UNCHANGED <<tables, sessions, bills>>
           ELSE LET id == CHOOSE i \in rows : \A k \in rows : i <= k
                    cm == _calculate_time_charge(sessions[id])
                IN  /\ sessions' = [sessions EXCEPT ![id].end_ts = Some(now)]
                    /\ tables' = SetStatus(table_id,
                          IF table_id \in DOMAIN tables
                             /\ tables[table_id].is_out_of_order = 1
                          THEN STATUS_OUT_OF_ORDER ELSE STATUS_EMPTY)
                    /\ bills' = Append(bills,
                          [session |-> id, charge |-> cm[1], minutes |-> cm[2]])
                    /\ ret' = RetTuple(cm[1], cm[2])

end_session(table_id) ==
    LET session == fetch_active_session(table_id)
        failed == RetTuple(0, 0)
    IN  /\ UNCHANGED <<products, orders>>
        /\ IF session = NULL
           THEN ret' = failed /\ UNCHANGED <<tables, sessions, bills>>
           ELSE LET id == Val(session)
                    cm == _calculate_time_charge(sessions[id])
                IN  /\ sessions' = [sessions EXCEPT ![id].end_ts = Some(now)]
                    /\ tables' = SetStatus(table_id,
                          IF table_id \in DOMAIN tables
                             /\ tables[table_id].is_out_of_order = 1
                          THEN STATUS_OUT_OF_ORDER ELSE STATUS_EMPTY)
                    /\ bills' = Append(bills,
                          [session |-> id, charge |-> cm[1], minutes |-> cm[2]])
                    /\ ret' = RetTuple(cm[1], cm[2])

\* mark_table_out_of_order with is_out_of_order left as it is.
mark_table_out_of_order_status_only(table_id) ==
    /\ ret' = NoRet
    /\ tables' = SetStatus(table_id, STATUS_OUT_OF_ORDER)
    /\ UNCHANGED <<sessions, products, orders, bills>>

mark_table_out_of_order(table_id) ==
    /\ ret' = NoRet
    /\ tables' = [i \in DOMAIN tables |->
          IF i = table_id
          THEN [tables[i] EXCEPT !.is_out_of_order = 1,
                                 !.status = STATUS_OUT_OF_ORDER]
          ELSE tables[i]]
    /\ UNCHANGED <<sessions, products, orders, bills>>

\* init_db with the seeding done whatever the tables hold: the INSERTs add
\* rows under the next AUTOINCREMENT ids.
init_db_reseeding ==
    LET n == Cardinality(DOMAIN tables)
        m == Cardinality(DOMAIN products)
    IN  /\ ret' = NoRet
        /\ tables' = [i \in 1..(n + NumTables) |->
                         IF i <= n THEN tables[i] ELSE SeedTable(i - n)]
        /\ products' = [i \in 1..(m + Len(SeedProducts)) |->
                           IF i <= m THEN products[i] ELSE SeedProduct(i - m)]
        /\ UNCHANGED <<sessions, orders, bills>>

\* CREATE TABLE IF NOT EXISTS changes nothing on an existing schema; the
\* seeding runs only on an empty tables / products table.
init_db ==
    /\ ret' = NoRet
    /\ tables' = IF Cardinality(DOMAIN tables) = 0
                 THEN [i \in 1..NumTables |-> SeedTable(i)] ELSE tables
    /\ products' = IF Cardinality(DOMAIN products) = 0
                   THEN [i \in 1..Len(SeedProducts) |-> SeedProduct(i)]
                   ELSE products
    /\ UNCHANGED <<sessions, orders, bills>>

\* SELECT COALESCE(SUM(o.amount), 0) FROM orders o JOIN sessions s ...
\* WHERE s.table_id=? AND s.end_ts IS NULL
RECURSIVE SumAmounts(_)
SumAmounts(rows) ==
    IF rows = <<>> THEN 0 ELSE Head(rows).amount + SumAmounts(Tail(rows))

\* orders o JOIN sessions s ON o.session_id = s.id
\* WHERE s.table_id=? AND s.end_ts IS NULL
ActiveSessionOrders(table_id) ==
    LET keep(o) == /\ o.session_id \in DOMAIN sessions
                   /\ sessions[o.session_id].table_id = table_id
                   /\ sessions[o.session_id].end_ts = NULL
    IN  SelectSeq(orders, keep)

get_active_session_order_total(table_id) ==
    SumAmounts(ActiveSessionOrders(table_id))

\* What the End of Day Report window reads: the dict of
\* get_end_of_day_report and the dict of get_end_of_day_product_report.
RetDict(report, sold) ==
    [type |-> "dict", ok |-> FALSE, charge |-> 0, minutes |-> 0,
     report |-> report, sold |-> sold]

\* SELECT * FROM sessions WHERE DATE(end_ts) = DATE('now','localtime'): the
\* clock of the model stays within one day, so these are the closed sessions.
SessionsToday == {i \in DOMAIN sessions : sessions[i].end_ts # NULL}

\* for s in sessions_today: charge, _ = _calculate_time_charge(s);
\* session_revenue += charge
RECURSIVE SumTimeCharges(_)
SumTimeCharges(ids) ==
    IF ids = {} THEN 0
    ELSE LET i == CHOOSE j \in ids : TRUE
         IN  _calculate_time_charge(sessions[i])[1] + SumTimeCharges(ids \ {i})

RECURSIVE SumQuantities(_)
SumQuantities(rows) ==
    IF rows = <<>> THEN 0 ELSE Head(rows).quantity + SumQuantities(Tail(rows))

\* The name of a product row (names are seeded and never changed).
ProductName(product_id) == SeedProducts[product_id].name

\* SELECT p.name, SUM(o.quantity), SUM(o.amount) FROM orders o JOIN sessions s
\* ... JOIN products p ... WHERE s.table_id=? AND s.end_ts IS NULL
\* GROUP BY p.name: one line per product name.
fetch_active_session_orders(table_id) ==
    LET joined(n) ==
            LET keep(o) == /\ o.product_id \in DOMAIN products
                           /\ ProductName(o.product_id) = n
            IN  SelectSeq(ActiveSessionOrders(table_id), keep)
        names == {ProductName(i) : i \in DOMAIN products}
        present == {n \in names : joined(n) # <<>>}
    IN  [n \in present |->
            [total_qty |-> SumQuantities(joined(n)),
             total_amount |-> SumAmounts(joined(n))]]

\* OrdersToday without the test on end_ts: the orders of every session.
OrdersOfAllSessions == orders

\* orders o JOIN sessions s ON o.session_id = s.id WHERE DATE(s.end_ts) = today
OrdersToday ==
    LET keep(o) == o.session_id \in SessionsToday
    IN  SelectSeq(orders, keep)

\* ... JOIN products p ON o.product_id = p.id ... GROUP BY p.category
CategoryTotals ==
    LET joined(c) ==
            LET keep(o) == /\ o.product_id \in DOMAIN products
                           /\ products[o.product_id].category = c
            IN  SelectSeq(OrdersToday, keep)
        present == {c \in {CATEGORY_FOOD, CATEGORY_DRINK} : joined(c) # <<>>}
    IN  [c \in present |-> SumAmounts(joined(c))]

\* SELECT p.name, COALESCE(SUM(o.quantity),0) ... JOIN products p ...
\* WHERE DATE(s.end_ts) = today GROUP BY p.name
get_end_of_day_product_report ==
    LET joined(n) ==
            LET keep(o) == /\ o.product_id \in DOMAIN products
                           /\ ProductName(o.product_id) = n
            IN  SelectSeq(OrdersToday, keep)
        names == {ProductName(i) : i \in DOMAIN products}
        present == {n \in names : joined(n) # <<>>}
    IN  [n \in present |-> SumQuantities(joined(n))]

get_end_of_day_report ==
    LET session_revenue == SumTimeCharges(SessionsToday)
        order_revenue == SumAmounts(OrdersToday)
        order_count == SumQuantities(OrdersToday)
    IN  [session_revenue |-> session_revenue,
         order_revenue |-> order_revenue,
         total_revenue |-> session_revenue + order_revenue,
         order_count |-> order_count,
         category_totals |-> CategoryTotals]

(***************************************************************************)
(* main.py: the handlers of the main window and of its popups.  A popup is *)
(* opened with wait_window, which keeps the main window's event loop       *)
(* running, so handlers of the main window and of every open popup         *)
(* interleave.  What the user has set in a popup's widgets (session type,  *)
(* duration, product, quantity text) is read when its button is pressed.   *)
(***************************************************************************)
StatusOf(table_id) == tables[table_id].status

\* The model stops opening popups at MaxPopups.
RECURSIVE SumOver(_, _)
SumOver(f, S) ==
    IF S = {} THEN 0
    ELSE LET x == CHOOSE y \in S : TRUE IN f[x] + SumOver(f, S \ {x})

RoomForPopup ==
    SumOver(start_popups, TableIds) + SumOver(order_popups, TableIds) < MaxPopups

\* The model stops inserting rows at MaxSessions and MaxOrders.
RoomForSession == Len(sessions) < MaxSessions
RoomForOrder == Len(orders) < MaxOrders

\* A step that only shows a messagebox.
Reject(kind, text) ==
    /\ dialog' = Dialog(kind, text)
    /\ ret' = NoRet
    /\ UNCHANGED <<db_vars, bills, ui_vars>>

CafeApp_select_table(table_id) ==
    /\ selected_table_id' = Some(table_id)
    /\ dialog' = NoDialog
    /\ ret' = NoRet
    /\ UNCHANGED <<db_vars, bills, start_popups, order_popups>>

CafeApp_start_session ==
    IF selected_table_id = NULL
    THEN Reject("warning", "Please select a table.")
    ELSE LET t == Val(selected_table_id)
         IN  IF StatusOf(t) = STATUS_OUT_OF_ORDER
             THEN Reject("error", "Cannot start a session on an out-of-order table.")
             ELSE /\ RoomForPopup
                  /\ start_popups' = [start_popups EXCEPT ![t] = @ + 1]
                  /\ dialog' = NoDialog
                  /\ ret' = NoRet
                  /\ UNCHANGED <<db_vars, bills, selected_table_id, order_popups>>

\* SessionStartWindow.start_session without its own status check.
SessionStartWindow_start_session_unchecked(table_id, session_type, minutes) ==
    /\ start_popups[table_id] > 0
    /\ \/ fetch_active_session(table_id) # NULL
       \/ RoomForSession
    /\ IF session_type = "Timed"
       THEN start_timed_session(table_id, minutes)
       ELSE start_unlimited_session(table_id)
    /\ start_popups' = [start_popups EXCEPT ![table_id] = @ - 1]
    /\ dialog' = NoDialog
    /\ UNCHANGED <<selected_table_id, order_popups>>

SessionStartWindow_start_session(table_id, session_type, minutes) ==
    /\ start_popups[table_id] > 0
    /\ IF StatusOf(table_id) = STATUS_OUT_OF_ORDER
       THEN Reject("error", "Cannot start a session on an out-of-order table.")
       ELSE /\ \/ fetch_active_session(table_id) # NULL
               \/ RoomForSession
            /\ IF session_type = "Timed"
               THEN start_timed_session(table_id, minutes)
               ELSE start_unlimited_session(table_id)
            /\ start_popups' = [start_popups EXCEPT ![table_id] = @ - 1]
            /\ dialog' = NoDialog
            /\ UNCHANGED <<selected_table_id, order_popups>>

CafeApp_add_order ==
    IF selected_table_id = NULL
    THEN Reject("warning", "Please select a table.")
    ELSE LET t == Val(selected_table_id)
         IN  IF StatusOf(t) # STATUS_OCCUPIED
             THEN Reject("error", "No active session; start a session first.")
             ELSE /\ RoomForPopup
                  /\ order_popups' = [order_popups EXCEPT ![t] = @ + 1]
                  /\ dialog' = NoDialog
                  /\ ret' = NoRet
                  /\ UNCHANGED <<db_vars, bills, selected_table_id, start_popups>>

\* What the quantity entry holds: nothing, text that is no integer, or an integer.
EmptyEntry == [kind |-> "empty", value |-> 0]
JunkEntry == [kind |-> "junk", value |-> 0]
IntEntry(n) == [kind |-> "int", value |-> n]
QuantityEntries == {EmptyEntry, JunkEntry} \cup {IntEntry(n) : n \in {0, 30}}

\* int(self.qty_entry.get() or "1"); NULL stands for the ValueError.
ParseQuantity(entry) ==
    IF entry.kind = "empty" THEN Some(1)
    ELSE IF entry.kind = "int" THEN Some(entry.value)
    ELSE NULL

\* OrderWindow.add_order with the qty <= 0 check made after the call of
\* db.add_order.
OrderWindow_add_order_late_check(table_id, selected_product_id, entry) ==
    /\ order_popups[table_id] > 0
    /\ IF selected_product_id = NULL
       THEN Reject("warning", "Please select a product.")
       ELSE IF ParseQuantity(entry) = NULL
       THEN Reject("error", "Invalid quantity.")
       ELSE /\ RoomForOrder
            /\ add_order(table_id, Val(selected_product_id), Val(ParseQuantity(entry)))
            /\ dialog' = IF Val(ParseQuantity(entry)) <= 0
                         THEN Dialog("error", "Invalid quantity.")
                         ELSE Dialog("info", "Order added.")
            /\ UNCHANGED ui_vars

OrderWindow_add_order(table_id, selected_product_id, entry) ==
    /\ order_popups[table_id] > 0
    /\ IF selected_product_id = NULL
       THEN Reject("warning", "Please select a product.")
       ELSE IF ParseQuantity(entry) = NULL \/ Val(ParseQuantity(entry)) <= 0
       THEN Reject("error", "Invalid quantity.")
       ELSE /\ RoomForOrder
            /\ add_order(table_id, Val(selected_product_id), Val(ParseQuantity(entry)))
            /\ IF ret'.ok
               THEN /\ dialog' = Dialog("info", "Order added.")
                    /\ order_popups' = [order_popups EXCEPT ![table_id] = @ - 1]
               ELSE /\ dialog' = Dialog("error", "Insufficient stock or product not found.")
                    /\ UNCHANGED order_popups
            /\ UNCHANGED <<selected_table_id, start_popups>>

\* What the bill text shows of an amount: f"{x:.1f}" keeps one decimal and
\* f"{x:.0f}" none (in kurus: the nearest multiple of 10, of 100).  No amount
\* of the model lies halfway between two such values.
ShownTenths(amount) == 10 * RoundHalfEven(amount, 10)
ShownUnits(amount) == 100 * RoundHalfEven(amount, 100)

CafeApp_close_bill ==
    IF selected_table_id = NULL
    THEN Reject("warning", "Please select a table.")
    ELSE LET t == Val(selected_table_id)
         IN  IF StatusOf(t) # STATUS_OCCUPIED
             THEN Reject("error", "No active session.")
             ELSE LET line_items == fetch_active_session_orders(t)
                      orders_total == get_active_session_order_total(t)
                  IN  /\ end_session(t)
                      /\ dialog' =
                            [kind |-> "info", text |-> "Bill Summary",
                             minutes |-> ret'.minutes,
                             time_charge |-> ShownTenths(ret'.charge),
                             lines |-> [n \in DOMAIN line_items |->
                                 [total_qty |-> line_items[n].total_qty,
                                  total_amount |->
                                      ShownUnits(line_items[n].total_amount)]],
                             total |-> ShownTenths(orders_total + ret'.charge)]
                      /\ UNCHANGED ui_vars

CafeApp_mark_out_of_order ==
    IF selected_table_id = NULL
    THEN Reject("warning", "Please select a table.")
    ELSE /\ mark_table_out_of_order(Val(selected_table_id))
         /\ dialog' = NoDialog
         /\ UNCHANGED ui_vars

(***************************************************************************)
(* The state machine.                                                      *)
(***************************************************************************)
\* The program has started on a new database: init_db has seeded it.
Init ==
    /\ tables = [i \in 1..NumTables |-> SeedTable(i)]
    /\ sessions = <<>>
    /\ products = [i \in 1..Len(SeedProducts) |-> SeedProduct(i)]
    /\ orders = <<>>
    /\ now = 0
    /\ selected_table_id = NULL
    /\ start_popups = [i \in TableIds |-> 0]
    /\ order_popups = [i \in TableIds |-> 0]
    /\ ret = NoRet
    /\ dialog = NoDialog
    /\ bills = <<>>

\* The program is about to start for the first time: cafe.db does not exist.
InitFresh ==
    /\ tables = <<>>
    /\ sessions = <<>>
    /\ products = <<>>
    /\ orders = <<>>
    /\ now = 0
    /\ selected_table_id = NULL
    /\ start_popups = [i \in TableIds |-> 0]
    /\ order_popups = [i \in TableIds |-> 0]
    /\ ret = NoRet
    /\ dialog = NoDialog
    /\ bills = <<>>

\* init_db has run: the schema exists (before, every other call raises
\* sqlite3.OperationalError and changes nothing).
SchemaExists == DOMAIN tables # {}

\* Time passes (and the last messagebox is dismissed).
Tick ==
    /\ now < MaxTime
    /\ now' = now + 1
    /\ ret' = NoRet
    /\ dialog' = NoDialog
    /\ UNCHANGED <<db_vars, bills, ui_vars>>

\* Calls of the database module, with arguments drawn from the given sets.
Call(op) == op /\ dialog' = NoDialog /\ UNCHANGED <<now, ui_vars>>

StartTimed(T, M) ==
    \E t \in T, m \in M :
        /\ fetch_active_session(t) # NULL \/ RoomForSession
        /\ Call(start_timed_session(t, m))

StartUnlimited(T) ==
    \E t \in T :
        /\ fetch_active_session(t) # NULL \/ RoomForSession
        /\ Call(start_unlimited_session(t))

AddOrder(T, P, Q) ==
    \E t \in T, p \in P, q \in Q :
        /\ RoomForOrder
        /\ Call(add_order(t, p, q))

EndSession(T) == \E t \in T : Call(end_session(t))

MarkOutOfOrder(T) == \E t \in T : Call(mark_table_out_of_order(t))

InitDb == Call(init_db)

\* The End of Day Report window reads the report when it opens.
EndOfDayReport ==
    /\ ret' = RetDict(get_end_of_day_report, get_end_of_day_product_report)
    /\ dialog' = NoDialog
    /\ UNCHANGED <<db_vars, bills, now, ui_vars>>

\* The handlers the user can trigger.
SelectTableOf(T) ==
    \E t \in T : CafeApp_select_table(t) /\ UNCHANGED now

SelectTable == SelectTableOf(TableIds)

OpenStartPopup == CafeApp_start_session /\ UNCHANGED now

PressStart ==
    \E t \in TableIds, k \in {"Timed", "Unlimited"}, m \in DurationChoices :
        SessionStartWindow_start_session(t, k, m) /\ UNCHANGED now

OpenOrderPopup == CafeApp_add_order /\ UNCHANGED now

PressAddOrder ==
    \E t \in TableIds, p \in {NULL} \cup {Some(i) : i \in ProductChoices},
       e \in QuantityEntries :
        OrderWindow_add_order(t, p, e) /\ UNCHANGED now

CloseBill == CafeApp_close_bill /\ UNCHANGED now

PressMarkOutOfOrder == CafeApp_mark_out_of_order /\ UNCHANGED now

\* Every operation of the database module.
Next ==
    \/ StartTimed(TableArgs, {1})
    \/ StartUnlimited(TableArgs)
    \/ AddOrder(TableArgs, {5}, {30})
    \/ EndSession(TableArgs)
    \/ MarkOutOfOrder(TableArgs)
    \/ InitDb

Spec == Init /\ [][Next]_vars

\* The same operations under an operator who keeps using each of them: no
\* operation that stays possible is put off for ever.
SpecLive ==
    /\ Spec
    /\ WF_vars(StartTimed(TableArgs, {1}))
    /\ WF_vars(StartUnlimited(TableArgs))
    /\ WF_vars(AddOrder(TableArgs, {5}, {30}))
    /\ WF_vars(EndSession(TableArgs))
    /\ WF_vars(MarkOutOfOrder(TableArgs))
    /\ WF_vars(InitDb)

\* Orders and stock: add_order with every kind of argument, for a table
\* whose sessions open and close, a table that never has one, and the id of
\* no table.
NextOrders ==
    \/ StartUnlimited({5})
    \/ AddOrder(TableArgs, ProductArgs, QuantityArgs)
    \/ EndSession({5})
    \/ InitDb

SpecOrders == Init /\ [][NextOrders]_vars

\* Billing: sessions of every kind and planned duration, closed at any time.
NextBilling ==
    \/ StartTimed(TableIds, MinutesArgs)
    \/ StartUnlimited(TableIds)
    \/ EndSession(TableIds)
    \/ Tick

SpecBilling == Init /\ [][NextBilling]_vars

\* The end-of-day report, read at any moment between sessions of both kinds
\* that start and end as time passes.
NextReport ==
    \/ StartTimed({5}, {1})
    \/ StartUnlimited({6})
    \/ EndSession(TableIds)
    \/ Tick
    \/ EndOfDayReport

SpecReport == Init /\ [][NextReport]_vars

\* The end-of-day report, read at any moment between orders booked on
\* sessions that start and end.
NextSales ==
    \/ StartUnlimited(TableIds)
    \/ AddOrder(TableIds, ProductIds, {1, 30})
    \/ EndSession(TableIds)
    \/ EndOfDayReport

SpecSales == Init /\ [][NextSales]_vars

\* Seeding: init_db on a database that does not exist yet, and again at any
\* later moment, between the calls that use the database.
NextSeed ==
    \/ InitDb
    \/ SchemaExists /\ StartUnlimited({5})
    \/ SchemaExists /\ AddOrder({5}, ProductIds, {-1, 30})
    \/ SchemaExists /\ EndSession({5})

SpecSeed == InitFresh /\ [][NextSeed]_vars

\* The user interface: the handlers of the main window and of the popups.
NextUI ==
    \/ SelectTable
    \/ OpenStartPopup
    \/ PressStart
    \/ OpenOrderPopup
    \/ PressAddOrder
    \/ CloseBill
    \/ PressMarkOutOfOrder

SpecUI == Init /\ [][NextUI]_vars

\* The user interface with the user staying at one table.
NextUIOne ==
    \/ SelectTableOf({5})
    \/ OpenStartPopup
    \/ PressStart
    \/ OpenOrderPopup
    \/ PressAddOrder
    \/ CloseBill
    \/ PressMarkOutOfOrder

SpecUIOne == Init /\ [][NextUIOne]_vars

(***************************************************************************)
(* Properties.                                                             *)
(***************************************************************************)
OpenSessions(table_id) ==
    {i \in DOMAIN sessions :
        sessions[i].table_id = table_id /\ sessions[i].end_ts = NULL}

ClosedSessions(table_id) ==
    {i \in DOMAIN sessions :
        sessions[i].table_id = table_id /\ sessions[i].end_ts # NULL}

RECURSIVE QuantityOrdered(_, _)
QuantityOrdered(rows, product_id) ==
    IF rows = <<>> THEN 0
    ELSE (IF Head(rows).product_id = product_id THEN Head(rows).quantity ELSE 0)
         + QuantityOrdered(Tail(rows), product_id)

\* C1: whatever calls of start_timed_session, start_unlimited_session,
\* add_order, end_session and mark_table_out_of_order are made, every table id
\* has at most one session whose end timestamp is NULL.
C1_AtMostOneOpenSession ==
    \A t \in TableArgs : Cardinality(OpenSessions(t)) <= 1

\* A table on its second session: one closed, one open.
C1_Witness ==
    \E t \in TableIds :
        Cardinality(OpenSessions(t)) = 1 /\ ClosedSessions(t) # {}

\* C2: no sequence of add_order calls brings a product's stock below zero.
C2_StockNeverNegative ==
    \A p \in DOMAIN products : products[p].stock >= 0

\* Orders have brought a product's stock down to exactly zero.
C2_Witness ==
    \E p \in DOMAIN products : products[p].stock = 0 /\ Len(orders) > 0

\* C3: between operations, for each product the seeded stock minus the
\* current stock equals the sum of the quantities of its order rows.
C3_StockMatchesOrders ==
    \A p \in DOMAIN products :
        SeedProduct(p).stock - products[p].stock = QuantityOrdered(orders, p)

\* Two order rows of one product.
C3_Witness ==
    /\ Len(orders) = 2
    /\ orders[1].product_id = orders[2].product_id
    /\ orders[1].quantity > 0
    /\ orders[2].quantity # 0

\* C4: add_order returns False and changes no row when the quantity exceeds
\* the stock, the product does not exist or the table has no open session,
\* and returns True in every other case.
C4_AddOrderResult ==
    [][\A t \in TableArgs, p \in ProductArgs, q \in QuantityArgs :
         add_order(t, p, q) =>
            LET refused == \/ fetch_active_session(t) = NULL
                           \/ p \notin DOMAIN products
                           \/ q > products[p].stock
            IN  /\ refused => ret' = RetBool(FALSE) /\ UNCHANGED db_vars
                /\ ~refused => ret' = RetBool(TRUE)]_vars

\* add_order has returned False for a table with an open session, and an
\* earlier add_order has succeeded.
C4_Witness ==
    /\ ret = RetBool(FALSE)
    /\ Len(orders) > 0
    /\ \E t \in TableIds : OpenSessions(t) # {}

\* C5: the amount of a new order row is the product's price at that moment
\* times the quantity, and no step changes the amount of an existing row.
C5_AmountFixedAtOrderTime ==
    [][/\ \A i \in DOMAIN orders :
             i \in DOMAIN orders' /\ orders'[i].amount = orders[i].amount
       /\ \A i \in DOMAIN orders' \ DOMAIN orders :
             orders'[i].amount =
                products[orders'[i].product_id].price * orders'[i].quantity]_vars

\* An order of several units whose session has been closed since.
C5_Witness ==
    \E i \in DOMAIN orders :
        /\ orders[i].quantity > 1
        /\ sessions[orders[i].session_id].end_ts # NULL

\* C6: after end_session(t) on a table with an open session, that session
\* has an end timestamp and t has no open session.
C6_EndSessionCloses ==
    [][\A t \in TableArgs :
         (fetch_active_session(t) # NULL /\ end_session(t)) =>
            /\ sessions'[Val(fetch_active_session(t))].end_ts # NULL
            /\ OpenSessions(t)' = {}]_vars

\* A session has been closed and its table has no open session.
C6_Witness ==
    \E t \in TableArgs : ClosedSessions(t) # {} /\ OpenSessions(t) = {}

\* C7: whenever a table has an open session, selecting it and pressing Close
\* Bill ends that session.
C7_CloseBillEndsSession ==
    [][\A t \in TableIds :
         (/\ fetch_active_session(t) # NULL
          /\ selected_table_id = Some(t)
          /\ CafeApp_close_bill) =>
            sessions'[Val(fetch_active_session(t))].end_ts # NULL]_vars

\* C8: the charge of a Timed session is computed from its planned duration
\* and hourly rate only; the charge of an Unlimited session from the minutes
\* elapsed between its start and its close.
C8_ChargeBasis ==
    \A i \in DOMAIN bills :
        LET s == sessions[bills[i].session]
            elapsed == ElapsedMinutes(s.start_ts, Val(s.end_ts))
        IN  IF s.kind = "Timed"
            THEN bills[i].charge =
                    RoundCharge(s.hourly_rate, Val(s.planned_minutes))
            ELSE bills[i].charge =
                    RoundCharge(s.hourly_rate, IF elapsed < 1 THEN 1 ELSE elapsed)

\* C9: every closed session is billed for at least one minute and for a
\* charge that is not negative.
C9_AtLeastOneMinute ==
    \A i \in DOMAIN bills : bills[i].minutes >= 1 /\ bills[i].charge >= 0

\* C10: at one hourly rate, a Timed session of a larger planned duration is
\* never charged less, and an Unlimited session of a larger elapsed time is
\* never charged less.
C10_ChargeMonotonic ==
    \A i, j \in DOMAIN bills :
        LET a == sessions[bills[i].session]
            b == sessions[bills[j].session]
        IN  (a.hourly_rate = b.hourly_rate /\ a.kind = b.kind) =>
              IF a.kind = "Timed"
              THEN Val(a.planned_minutes) <= Val(b.planned_minutes)
                      => bills[i].charge <= bills[j].charge
              ELSE Val(a.end_ts) - a.start_ts <= Val(b.end_ts) - b.start_ts
                      => bills[i].charge <= bills[j].charge

\* C11: every session row refers to an existing table, its hourly rate is the
\* rate of that table's kind (30 for VIP, 20 for Standard) from the start of
\* the session on, and the charge returned at close is computed from it.
C11_SessionRateFromTable ==
    /\ \A i \in DOMAIN sessions :
          /\ sessions[i].table_id \in DOMAIN tables
          /\ sessions[i].hourly_rate =
                IF tables[sessions[i].table_id].kind = TABLE_KIND_VIP
                THEN VipRate ELSE StandardRate
    /\ \A i \in DOMAIN bills :
          bills[i].charge =
             RoundCharge(sessions[bills[i].session].hourly_rate, bills[i].minutes)

\* Every table but table_id keeps its status in the step.
OthersKeepStatus(table_id) ==
    \A u \in DOMAIN tables \ {table_id} :
        u \in DOMAIN tables' /\ tables'[u].status = tables[u].status

\* C12: a start_timed_session or start_unlimited_session call that creates a
\* session sets the status of its table to Occupied; an end_session call that
\* closes a session sets it to OutOfOrder when the table's out-of-order flag
\* is set and to Empty otherwise; the status of every other table is unchanged.
C12_SessionDrivenStatus ==
    [][\A t \in TableArgs :
         /\ (/\ fetch_active_session(t) = NULL
             /\ \/ \E m \in {1} : start_timed_session(t, m)
                \/ start_unlimited_session(t)) =>
               /\ t \in DOMAIN tables => tables'[t].status = STATUS_OCCUPIED
               /\ OthersKeepStatus(t)
         /\ (fetch_active_session(t) # NULL /\ end_session(t)) =>
               /\ t \in DOMAIN tables =>
                     tables'[t].status =
                        IF tables[t].is_out_of_order = 1
                        THEN STATUS_OUT_OF_ORDER ELSE STATUS_EMPTY
               /\ OthersKeepStatus(t)]_vars

\* end_session has just closed the session of a table marked out of order,
\* while another table is occupied.
C12_Witness ==
    /\ ret.type = "tuple"
    /\ bills # <<>>
    /\ \E t \in TableIds :
          /\ sessions[bills[Len(bills)].session].table_id = t
          /\ OpenSessions(t) = {}
          /\ tables[t].is_out_of_order = 1
          /\ tables[t].status = STATUS_OUT_OF_ORDER
          /\ \E u \in TableIds \ {t} : tables[u].status = STATUS_OCCUPIED

Statuses == {STATUS_EMPTY, STATUS_OCCUPIED, STATUS_RESERVED, STATUS_OUT_OF_ORDER}

\* The status of every table is one of the four values, and is never Reserved.
StatusNeverReserved ==
    \A t \in DOMAIN tables : tables[t].status \in Statuses \ {STATUS_RESERVED}

\* One table is Occupied, another OutOfOrder, and a session has been closed.
C13_Witness ==
    /\ \E t, u \in DOMAIN tables :
          /\ tables[t].status = STATUS_OCCUPIED
          /\ tables[u].status = STATUS_OUT_OF_ORDER
    /\ \E i \in DOMAIN sessions : sessions[i].end_ts # NULL

\* C13: each of the statuses Empty, Occupied, Reserved and OutOfOrder comes
\* about for a table through the program's operations; here, for Reserved:
\* an operator who keeps using every operation sees a table Reserved.
C13_ReservedReachable ==
    <>(\E t \in DOMAIN tables : tables[t].status = STATUS_RESERVED)

\* C14: init_db on a database that holds tables and products changes no row
\* of tables, products, sessions or orders; on a new database it creates
\* exactly 20 tables, all with status Empty, and 10 products.
C14_SeedingHappensOnce ==
    [][init_db =>
         IF DOMAIN tables # {} /\ DOMAIN products # {}
         THEN UNCHANGED db_vars
         ELSE /\ Cardinality(DOMAIN tables') = 20
              /\ \A t \in DOMAIN tables' : tables'[t].status = STATUS_EMPTY
              /\ Cardinality(DOMAIN products') = 10
              /\ UNCHANGED <<sessions, orders>>]_vars

\* init_db has been called again on a database in use: a session has been
\* closed, stock has been taken, and the last call, which returned None, was
\* made with no session open (so it was no call of start_unlimited_session).
C14_Witness ==
    /\ ret = NoRet
    /\ SchemaExists
    /\ \E i \in DOMAIN sessions : sessions[i].end_ts # NULL
    /\ \A i \in DOMAIN sessions : sessions[i].end_ts # NULL
    /\ \E p \in DOMAIN products : products[p].stock # SeedProduct(p).stock

\* The messageboxes that refuse an action: no table selected, no active
\* session on the selected table, an invalid quantity entry.
Rejections ==
    {Dialog("warning", "Please select a table."),
     Dialog("error", "No active session; start a session first."),
     Dialog("error", "No active session."),
     Dialog("error", "Invalid quantity.")}

\* C15: a step of the user interface that ends in a refusing messagebox (no
\* table selected, Add Order or Close Bill on a table that is not Occupied, a
\* quantity entry that is no number or is <= 0) leaves tables, sessions,
\* products and orders unchanged.
C15_RejectionChangesNothing ==
    [][dialog' \in Rejections => UNCHANGED db_vars]_vars

\* Close Bill has been refused on a table that has an open session and an
\* order.
C15_Witness ==
    /\ dialog = Dialog("error", "No active session.")
    /\ \E t \in TableIds :
          /\ selected_table_id = Some(t)
          /\ OpenSessions(t) # {}
          /\ orders # <<>>

\* C16: no step of the user interface adds a session row for a table whose
\* status is OutOfOrder, also when the table was marked out of order while
\* its session-start popup was open.
C16_NoSessionOnOutOfOrder ==
    [][\A i \in DOMAIN sessions' \ DOMAIN sessions :
          tables[sessions'[i].table_id].status # STATUS_OUT_OF_ORDER]_vars

\* A start has been refused on a table that was marked out of order while a
\* session-start popup for it was open (the popup is still open), and no
\* session has been started on it.
C16_Witness ==
    /\ dialog = Dialog("error", "Cannot start a session on an out-of-order table.")
    /\ \E t \in TableIds :
          /\ start_popups[t] > 0
          /\ tables[t].status = STATUS_OUT_OF_ORDER
          /\ OpenSessions(t) = {}

\* C17: mark_table_out_of_order(t) sets the out-of-order flag of t, no step
\* clears a flag that is set, and end_session(t) on a table whose flag is set
\* leaves its status at OutOfOrder.
C17_OutOfOrderIsPermanent ==
    [][/\ \A t \in TableIds :
             mark_table_out_of_order(t) => tables'[t].is_out_of_order = 1
       /\ \A t \in DOMAIN tables :
             tables[t].is_out_of_order = 1 =>
                /\ t \in DOMAIN tables'
                /\ tables'[t].is_out_of_order = 1
                /\ end_session(t) => tables'[t].status = STATUS_OUT_OF_ORDER]_vars

\* A table marked out of order has had two sessions closed, the second by the
\* last call, and its status is OutOfOrder.
C17_Witness ==
    /\ ret.type = "tuple"
    /\ ret.minutes >= 1
    /\ \E t \in TableIds :
          /\ tables[t].is_out_of_order = 1
          /\ tables[t].status = STATUS_OUT_OF_ORDER
          /\ Cardinality(ClosedSessions(t)) = 2
          /\ sessions[bills[Len(bills)].session].table_id = t
          /\ Len(bills) = 2

\* C18: in every state reached through starting sessions, adding orders,
\* ending sessions and marking tables out of order, the status of a table is
\* Occupied if and only if the table has an open session.
C18_OccupiedIffOpenSession ==
    \A t \in DOMAIN tables :
        tables[t].status = STATUS_OCCUPIED <=> OpenSessions(t) # {}

RECURSIVE SumBillCharges(_)
SumBillCharges(rows) ==
    IF rows = <<>> THEN 0 ELSE Head(rows).charge + SumBillCharges(Tail(rows))

\* C19: whenever the end-of-day report is read, its session revenue is the
\* sum of the time charges end_session returned for the sessions closed so
\* far that day, Timed and Unlimited ones alike.
C19_ReportMatchesBills ==
    ret.type = "dict" => ret.report.session_revenue = SumBillCharges(bills)

\* C20: end_session on a table with no open session returns (0.0, 0) and
\* changes no row: no session is modified and the status of the table stays.
C20_EndSessionWithoutSession ==
    [][\A t \in TableArgs :
         (OpenSessions(t) = {} /\ end_session(t)) =>
            ret' = RetTuple(0, 0) /\ UNCHANGED db_vars]_vars

\* end_session has returned (0.0, 0) in a database where one table has an
\* open session and another has a closed one and no open one.
C20_Witness ==
    /\ ret = RetTuple(0, 0)
    /\ \E t, u \in TableIds :
          /\ OpenSessions(t) # {}
          /\ OpenSessions(u) = {}
          /\ ClosedSessions(u) # {}

\* C21: start_timed_session and start_unlimited_session on a table that has
\* an open session add no session row, change no field of the open session
\* and do not rewrite the status of the table.
C21_StartOnOpenSessionIsNoOp ==
    [][\A t \in TableArgs :
         (/\ OpenSessions(t) # {}
          /\ \/ \E m \in {1} : start_timed_session(t, m)
             \/ start_unlimited_session(t)) =>
            UNCHANGED db_vars]_vars

\* The last call returned None on a database where a table with an open
\* session has been marked out of order (its status is OutOfOrder, which a
\* start would rewrite) and a session of another table has been closed.
C21_Witness ==
    /\ ret = NoRet
    /\ \E t, u \in TableIds :
          /\ OpenSessions(t) # {}
          /\ tables[t].status = STATUS_OUT_OF_ORDER
          /\ ClosedSessions(u) # {}
          /\ Len(sessions) = MaxSessions

\* The frame of a successful add_order(t, p, q): one order row more, for the
\* open session of t, product p and quantity q; the stock of p lower by q;
\* every other product, every table and every session unchanged.
AddOrderFrame ==
    \A t \in TableArgs, p \in ProductArgs, q \in QuantityArgs :
        (add_order(t, p, q) /\ ret' = RetBool(TRUE)) =>
           /\ Len(orders') = Len(orders) + 1
           /\ SubSeq(orders', 1, Len(orders)) = orders
           /\ orders'[Len(orders')].session_id \in OpenSessions(t)
           /\ orders'[Len(orders')].product_id = p
           /\ orders'[Len(orders')].quantity = q
           /\ products'[p].stock = products[p].stock - q
           /\ \A r \in DOMAIN products \ {p} : products'[r] = products[r]
           /\ UNCHANGED <<tables, sessions>>

\* No step but a successful add_order changes a stock.
OnlyAddOrderChangesStock ==
    products' # products =>
        \E t \in TableArgs, p \in ProductArgs, q \in QuantityArgs :
            add_order(t, p, q) /\ ret' = RetBool(TRUE)

\* C22: a successful add_order(t, p, q) adds exactly one order row, for the
\* open session of t with product p and quantity q, lowers the stock of p by
\* exactly q and leaves every other product, every table and every session
\* unchanged; no other operation changes a stock; and no stock ever increases.
C22_AddOrderEffect ==
    [][/\ AddOrderFrame
       /\ OnlyAddOrderChangesStock
       /\ \A p \in DOMAIN products :
             p \in DOMAIN products' /\ products'[p].stock <= products[p].stock]_vars

\* C23: a new order row is attached to a session that is open when the row
\* is inserted, and a session that has just started on a table has no
\* orders: get_active_session_order_total is 0 and
\* fetch_active_session_orders is empty for that table, whatever order
\* popups are open.
C23_OrdersStayWithTheirSession ==
    [][/\ \A i \in DOMAIN orders' \ DOMAIN orders :
             /\ orders'[i].session_id \in DOMAIN sessions
             /\ sessions[orders'[i].session_id].end_ts = NULL
       /\ \A t \in TableArgs :
             (\E i \in DOMAIN sessions' \ DOMAIN sessions :
                 sessions'[i].table_id = t) =>
                /\ get_active_session_order_total(t)' = 0
                /\ fetch_active_session_orders(t)' = <<>>]_vars

\* An order popup opened during a session of the table has been used after
\* that session was closed and before another started: the order was refused
\* although the stock would have covered every quantity the user can enter.
C23_Witness ==
    /\ dialog = Dialog("error", "Insufficient stock or product not found.")
    /\ \E t \in TableIds :
          /\ order_popups[t] > 0
          /\ OpenSessions(t) = {}
          /\ ClosedSessions(t) # {}
    /\ \A p \in ProductChoices : products[p].stock >= 30

\* The sum of the amounts of the lines of a bill.
RECURSIVE SumLines(_, _)
SumLines(lines, names) ==
    IF names = {} THEN 0
    ELSE LET n == CHOOSE m \in names : TRUE
         IN  lines[n].total_amount + SumLines(lines, names \ {n})

\* The order rows of one session.
OrdersOfSession(id) ==
    LET keep(o) == o.session_id = id
    IN  SelectSeq(orders, keep)

\* The lines of the bill are those of the session being closed: read before
\* end_session closes it, their amounts sum to the amounts of its order rows.
BillLinesAreOfTheSession ==
    \A t \in TableIds :
        (/\ selected_table_id = Some(t)
         /\ StatusOf(t) = STATUS_OCCUPIED
         /\ fetch_active_session(t) # NULL
         /\ CafeApp_close_bill) =>
           LET id == Val(fetch_active_session(t))
           IN  /\ sessions'[id].end_ts # NULL
               /\ SumLines(dialog'.lines, DOMAIN dialog'.lines) =
                     SumAmounts(OrdersOfSession(id))

\* C24: the total Close Bill shows is the sum of the amounts of the order
\* rows of the session being closed plus the time charge of that session, and
\* the order lines shown are those of that session.
C24_BillTotal ==
    [][/\ BillLinesAreOfTheSession
       /\ \A t \in TableIds :
             (/\ selected_table_id = Some(t)
              /\ StatusOf(t) = STATUS_OCCUPIED
              /\ fetch_active_session(t) # NULL
              /\ CafeApp_close_bill) =>
                LET id == Val(fetch_active_session(t))
                IN  dialog'.total =
                       SumAmounts(OrdersOfSession(id))
                       + _calculate_time_charge(sessions[id])[1]]_vars

\* The order rows booked on sessions that have been closed, each once, and
\* those of them that are of one product or of one category.
OrdersOfClosedSessions ==
    LET keep(o) == sessions[o.session_id].end_ts # NULL
    IN  SelectSeq(orders, keep)

ClosedOrdersOfProduct(product_id) ==
    LET keep(o) == o.product_id = product_id
    IN  SelectSeq(OrdersOfClosedSessions, keep)

ClosedOrdersOfCategory(category) ==
    LET keep(o) == products[o.product_id].category = category
    IN  SelectSeq(OrdersOfClosedSessions, keep)

\* An entry of a dict the report returns, 0 for a key it does not hold.
Entry(dict, key) == IF key \in DOMAIN dict THEN dict[key] ELSE 0

\* C25: in what the end-of-day report returns, order_revenue, order_count,
\* category_totals and the product report are made of the orders of closed
\* sessions, each counted once, and of no order of an open session;
\* total_revenue is session_revenue plus order_revenue, the category totals
\* sum to order_revenue and the per-product quantities sum to order_count.
C25_ReportCountsClosedSessions ==
    ret.type = "dict" =>
        LET report == ret.report
            sold == ret.sold
        IN  /\ report.order_revenue = SumAmounts(OrdersOfClosedSessions)
            /\ report.order_count = SumQuantities(OrdersOfClosedSessions)
            /\ \A c \in {CATEGORY_FOOD, CATEGORY_DRINK} :
                  Entry(report.category_totals, c) =
                     SumAmounts(ClosedOrdersOfCategory(c))
            /\ \A p \in DOMAIN products :
                  Entry(sold, ProductName(p)) =
                     SumQuantities(ClosedOrdersOfProduct(p))
            /\ DOMAIN sold \subseteq {ProductName(p) : p \in DOMAIN products}
            /\ report.total_revenue =
                  report.session_revenue + report.order_revenue
            /\ SumOver(report.category_totals, DOMAIN report.category_totals) =
                  report.order_revenue
            /\ SumOver(sold, DOMAIN sold) = report.order_count

\* The report has been read while a closed session holds an order of one
\* category and an open session holds an order of the other.
C25_Witness ==
    /\ ret.type = "dict"
    /\ ret.report.order_revenue > 0
    /\ \E i, j \in DOMAIN orders :
          /\ sessions[orders[i].session_id].end_ts # NULL
          /\ sessions[orders[j].session_id].end_ts = NULL
          /\ products[orders[i].product_id].category #
                products[orders[j].product_id].category

====
